---- MODULE Spec2Model ----
(***************************************************************************)
(* Model of tools/parser.py: the NMEA line validator, the four sentence    *)
(* parsers, the file loader, the accuracy statistics and the report/export *)
(* steps of main().                                                        *)
(*                                                                         *)
(* A line of the input file is a record.  `text` holds the leading         *)
(* characters of the raw line (everything up to and including the first    *)
(* field separator, or the whole line when it is shorter); the rest of the *)
(* sentence is carried by what the NMEA decoder would find in it:          *)
(*   dec    "ok"  : well-formed tail, checksum absent or matching          *)
(*          "cks" : well-formed tail, checksum present and not matching    *)
(*          "err" : tail that the decoder's grammar rejects                *)
(*   status the status field of GLL/RMC ("" when the field is missing)     *)
(*   qual   the fix-quality field of GGA                                   *)
(*   lat, lon  the coordinate fields: <<"num", v>>, <<"empty">>, <<"bad">> *)
(* Coordinates are integers (one unit is one metre of arc), distances are  *)
(* integers in millimetres.                                                *)
(***************************************************************************)
EXTENDS Integers, Sequences, FiniteSets, TLC

\* ------------------------------------------------------------------ bounds
\* longest input file, in lines
MaxLines == 3
\* coordinates range over -MaxCoord..MaxCoord
MaxCoord == 1
\* longest series handed to the statistics functions on their own
MaxN == 3

\* --------------------------------------------------------------- characters
NonAscii == "U+00E9"
NonAsciiSpace == "U+3000"
Ctrl == "U+0001"

UpperLetters == {"A", "C", "G", "L", "M", "N", "P", "R", "S", "V"}

\* str.isspace(): ASCII blanks and the Unicode spaces
IsSpace(c) == c \in {" ", NonAsciiSpace}

\* code point above 0x7F
IsNonAscii(c) == c \in {NonAscii, NonAsciiSpace}

IsAscii(c) == ~IsNonAscii(c)

\* \w of a str pattern: letters of any script, digits, underscore
IsWord(c) == c \in UpperLetters \cup {"g", "1", NonAscii}

\* str.upper() on one character
Upper(c) == IF c = "g" THEN "G" ELSE c

RECURSIVE lstrip(_)
lstrip(s) == IF s = <<>> THEN s
             ELSE IF IsSpace(Head(s)) THEN lstrip(Tail(s)) ELSE s

RECURSIVE rstrip(_)
rstrip(s) == IF s = <<>> THEN s
             ELSE IF IsSpace(s[Len(s)]) THEN rstrip(SubSeq(s, 1, Len(s) - 1)) ELSE s

\* str.strip()
strip(s) == rstrip(lstrip(s))

\* re.sub(r'[^\x00-\x7F]+', '', line): drops the characters above 0x7F and
\* nothing else; ASCII control characters stay
MutSubAll(s) == SelectSeq(s, LAMBDA c : c \in UpperLetters \cup {"$", ",", " ", "g", "1"})
SubNonAscii(s) == SelectSeq(s, IsAscii)

\* re.match(r'^\$[A-Z]{5},', line)
MatchSentenceStart(s) == /\ Len(s) >= 7
                         /\ s[1] = "$"
                         /\ \A i \in 2..6 : s[i] \in UpperLetters
                         /\ s[7] = ","

\* is_valid_nmea(line)
is_valid_nmea(line) == MatchSentenceStart(SubNonAscii(strip(line.text)))

\* str.startswith(prefix)
MutStartswithCleaned(line, prefix) ==
    /\ Len(SubNonAscii(strip(line.text))) >= Len(prefix)
    /\ SubSeq(SubNonAscii(strip(line.text)), 1, Len(prefix)) = prefix
startswith(line, prefix) == /\ Len(line.text) >= Len(prefix)
                            /\ SubSeq(line.text, 1, Len(prefix)) = prefix

GNGLL == <<"$", "G", "N", "G", "L", "L">>
GPGGA == <<"$", "G", "P", "G", "G", "A">>
GPRMC == <<"$", "G", "P", "R", "M", "C">>
GNRMC == <<"$", "G", "N", "R", "M", "C">>
GPGSV == <<"$", "G", "P", "G", "S", "V">>

Prefixes == {GNGLL, GPGGA, GPRMC, GNRMC}

\* ------------------------------------------------------------ NMEA decoder
\* pynmea2.parse(line).  The sentence grammar allows leading blanks and an
\* optional '$' before five word characters and a comma; it is matched
\* ignoring case and the sentence type is upper-cased before the sentence
\* class is looked up.  Errors are raised in this order: ParseError (grammar),
\* ChecksumError, SentenceTypeError (no class for the type).  (No modelled
\* line starts a proprietary 'P...' or a query '....Q,' sentence.)
SentenceClass(t) == LET k == <<Upper(t[3]), Upper(t[4]), Upper(t[5])>>
                    IN  IF k = <<"G", "L", "L">> THEN "GLL"
                        ELSE IF k = <<"G", "G", "A">> THEN "GGA"
                        ELSE IF k = <<"R", "M", "C">> THEN "RMC"
                        ELSE IF k = <<"G", "S", "V">> THEN "GSV"
                        ELSE "unknown"

pynmea2_parse(line) ==
    LET t0 == lstrip(line.text)
        t  == IF t0 # <<>> /\ Head(t0) = "$" THEN Tail(t0) ELSE t0
        grammar == /\ Len(t) >= 6
                   /\ \A i \in 1..5 : IsWord(t[i])
                   /\ t[6] = ","
                   /\ line.dec # "err"
    IN  IF ~grammar THEN <<"raise", "ParseError">>
        ELSE IF line.dec = "cks" THEN <<"raise", "ChecksumError">>
        ELSE IF SentenceClass(t) = "unknown" THEN <<"raise", "SentenceTypeError">>
        ELSE <<"msg", SentenceClass(t)>>

\* msg.status: GLL and RMC sentences have the field, the others raise
HasStatus(cls) == cls \in {"GLL", "RMC"}

\* msg.latitude / msg.longitude (LatLonFix): GLL, GGA and RMC
HasLatLon(cls) == cls \in {"GLL", "GGA", "RMC"}

\* dm_to_sd: an empty field is 0.0, a field that is not DDMM.MMMM raises
\* ValueError
Coordinate(f) == IF f[1] = "num" THEN <<"val", f[2]>>
                 ELSE IF f[1] = "empty" THEN <<"val", 0>>
                 ELSE <<"raise", "ValueError">>

\* lat = msg.latitude; lon = msg.longitude; return lat, lon
ReadLatLon(cls, line) ==
    IF ~HasLatLon(cls) THEN <<"raise", "AttributeError">>
    ELSE IF Coordinate(line.lat)[1] = "raise" THEN <<"raise", "ValueError">>
    ELSE IF Coordinate(line.lon)[1] = "raise" THEN <<"raise", "ValueError">>
    ELSE <<"fix", Coordinate(line.lat)[2], Coordinate(line.lon)[2]>>

\* -------------------------------------------------------- sentence parsers
\* Result of a parser: <<"fix", lat, lon>>, <<"none">> for (None, None), or
\* <<"raise", e>> when exception e leaves the function.  Only ChecksumError
\* is caught.
parse_gngll(line) ==
    LET msg == pynmea2_parse(line)
    IN  IF msg[1] = "raise"
        THEN IF msg[2] = "ChecksumError" THEN <<"none">> ELSE msg
        ELSE IF ~HasStatus(msg[2]) THEN <<"raise", "AttributeError">>
        ELSE IF line.status = "A" THEN ReadLatLon(msg[2], line)
        ELSE <<"none">>

MutParseGpggaNoCatch(line) ==
    LET msg == pynmea2_parse(line)
    IN  IF msg[1] = "raise" THEN msg ELSE ReadLatLon(msg[2], line)
parse_gpgga(line) ==
    LET msg == pynmea2_parse(line)
    IN  IF msg[1] = "raise"
        THEN IF msg[2] = "ChecksumError" THEN <<"none">> ELSE msg
        ELSE ReadLatLon(msg[2], line)

MutParseGprmcNoGate(line) ==
    LET msg == pynmea2_parse(line)
    IN  IF msg[1] = "raise"
        THEN IF msg[2] = "ChecksumError" THEN <<"none">> ELSE msg
        ELSE ReadLatLon(msg[2], line)
parse_gprmc(line) ==
    LET msg == pynmea2_parse(line)
    IN  IF msg[1] = "raise"
        THEN IF msg[2] = "ChecksumError" THEN <<"none">> ELSE msg
        ELSE IF ~HasStatus(msg[2]) THEN <<"raise", "AttributeError">>
        ELSE IF line.status = "A" THEN ReadLatLon(msg[2], line)
        ELSE <<"none">>

parse_gnrmc(line) ==
    LET msg == pynmea2_parse(line)
    IN  IF msg[1] = "raise"
        THEN IF msg[2] = "ChecksumError" THEN <<"none">> ELSE msg
        ELSE IF ~HasStatus(msg[2]) THEN <<"raise", "AttributeError">>
        ELSE IF line.status = "A" THEN ReadLatLon(msg[2], line)
        ELSE <<"none">>

\* the if/elif chain of load_gps_data: which parser the raw line goes to
Dispatch(line) == IF startswith(line, GNGLL) THEN "parse_gngll"
                  ELSE IF startswith(line, GPGGA) THEN "parse_gpgga"
                  ELSE IF startswith(line, GPRMC) THEN "parse_gprmc"
                  ELSE IF startswith(line, GNRMC) THEN "parse_gnrmc"
                  ELSE "skip"

CallParser(p, line) == IF p = "parse_gngll" THEN parse_gngll(line)
                       ELSE IF p = "parse_gpgga" THEN parse_gpgga(line)
                       ELSE IF p = "parse_gprmc" THEN parse_gprmc(line)
                       ELSE parse_gnrmc(line)

\* ------------------------------------------------------------- statistics
Sum(s) == LET F[i \in 0..Len(s)] == IF i = 0 THEN 0 ELSE F[i - 1] + s[i]
          IN  F[Len(s)]

RECURSIVE NewtonSqrt(_, _)
NewtonSqrt(n, x) == LET y == (x + n \div x) \div 2
                    IN  IF y >= x THEN x ELSE NewtonSqrt(n, y)

\* np.sqrt on a non-negative value, rounded down to an integer
sqrt(n) == IF n = 0 THEN 0 ELSE NewtonSqrt(n, n)

\* geodesic((mean_lat, mean_lon), (lat, lon)).meters, in millimetres.  The
\* centroid np.mean(latitudes), np.mean(longitudes) is the rational
\* (sumLat / n, sumLon / n); one coordinate unit is 1000 mm in both
\* directions (coordinates inside the valid latitude/longitude range).
MutGeodesicSumAsCentroid(sumLat, sumLon, n, lat, lon) ==
    LET dLat == lat - sumLat
        dLon == lon - sumLon
    IN  sqrt(1000 * 1000 * (dLat * dLat + dLon * dLon))
geodesic(sumLat, sumLon, n, lat, lon) ==
    LET dLat == n * lat - sumLat
        dLon == n * lon - sumLon
    IN  sqrt(1000 * 1000 * (dLat * dLat + dLon * dLon)) \div n

\* [geodesic(centroid, (lat, lon)).meters for lat, lon in zip(...)]
ErrorList(lats, lons) ==
    LET n == IF Len(lats) < Len(lons) THEN Len(lats) ELSE Len(lons)
    IN  [i \in 1..n |-> geodesic(Sum(lats), Sum(lons), n, lats[i], lons[i])]

Squares(s) == [i \in 1..Len(s) |-> s[i] * s[i]]

\* calculate_rms(latitudes, longitudes): the value returned and what is
\* printed.  <<"nan">> is np.nan, <<"num", v>> a float of v millimetres.
calculate_rms(lats, lons) ==
    IF lats = <<>> \/ lons = <<>>
    THEN [ret |-> <<"nan">>, printed |-> <<[tag |-> "err_rms_no_data", val |-> 0]>>]
    ELSE LET errs == ErrorList(lats, lons)
         IN  [ret |-> <<"num", sqrt(Sum(Squares(errs)) \div Len(errs))>>,
              printed |-> <<>>]

\* np.percentile(errors, q), linear interpolation between order statistics
Percentile(errs, q) ==
    LET a  == SortSeq(errs, LAMBDA x, y : x < y)
        h  == (Len(a) - 1) * q
        lo == h \div 100 + 1
        hi == IF lo < Len(a) THEN lo + 1 ELSE lo
    IN  (100 * a[lo] + (h % 100) * (a[hi] - a[lo])) \div 100

\* calculate_percentiles(errors): <<"list">> is the empty Python list,
\* <<"ndarray", p68, p95>> the array np.percentile returns
calculate_percentiles(errs) ==
    IF errs = <<>>
    THEN [ret |-> <<"list">>, printed |-> <<[tag |-> "err_pct_no_data", val |-> 0]>>]
    ELSE [ret |-> <<"ndarray", Percentile(errs, 68), Percentile(errs, 95)>>,
          printed |-> <<>>]

\* f'{x:.2f}' of a value in millimetres: metres with two decimals, kept as
\* the number of centimetres
Format2f(mm) == (mm + 5) \div 10

\* main, lines 161-164: the RMS line of the report
ReportRms(r) == IF r[1] # "nan"
                THEN <<[tag |-> "rms", val |-> Format2f(r[2])]>>
                ELSE <<[tag |-> "rms_failed", val |-> 0]>>

\* main, lines 172-176: the percentile lines of the report; a Python list
\* has no attribute `size`
ReportPercentiles(p) ==
    IF p[1] = "list" THEN [raised |-> <<"AttributeError">>, printed |-> <<>>]
    ELSE [raised |-> <<>>,
          printed |-> <<[tag |-> "p68", val |-> Format2f(p[2])],
                        [tag |-> "p95", val |-> Format2f(p[3])]>>]

\* ------------------------------------------------------------------ paths
\* os.path.basename
RECURSIVE basename(_)
basename(p) == IF \E i \in 1..Len(p) : p[i] = "/"
               THEN basename(Tail(p))
               ELSE p

\* os.path.splitext(p)[0] on a name without separators: cut at the last dot
\* unless only dots precede it
splitext_root(p) ==
    LET dots == {i \in 1..Len(p) : p[i] = "."}
        last == CHOOSE i \in dots : \A j \in dots : j <= i
    IN  IF dots = {} THEN p
        ELSE IF \A j \in 1..last : p[j] = "." THEN p
        ELSE SubSeq(p, 1, last - 1)

\* f'{base_filename}.csv'
output_filename(path) == splitext_root(basename(path)) \o <<".", "c", "s", "v">>

\* csv.writer(...).writerow([lat, lon]) for each zipped pair
MutCsvRowsWithHeader(lats, lons) ==
    LET n == IF Len(lats) < Len(lons) THEN Len(lats) ELSE Len(lons)
    IN  [i \in 1..(n + 1) |-> IF i = 1 THEN <<0, 0>> ELSE <<lats[i - 1], lons[i - 1]>>]
CsvRows(lats, lons) ==
    LET n == IF Len(lats) < Len(lons) THEN Len(lats) ELSE Len(lons)
    IN  [i \in 1..n |-> <<lats[i], lons[i]>>]

\* ----------------------------------------------------------------- inputs
CoordVals == 0..MaxCoord

Fields == {<<"num", v>> : v \in CoordVals} \cup {<<"empty">>, <<"bad">>}

Line(text, dec, status, qual, lat, lon) ==
    [text |-> text, dec |-> dec, status |-> status, qual |-> qual,
     lat |-> lat, lon |-> lon]

Sentence(prefix) == prefix \o <<",">>

Insert(s, k, c) == SubSeq(s, 1, k) \o <<c>> \o SubSeq(s, k + 1, Len(s))

Replace(s, k, c) == [s EXCEPT ![k] = c]

\* the sentence starts of the five sentence types, and each of them with one
\* character inserted before the comma or one character replaced
NoisyTexts ==
    LET clean == {Sentence(t) : t \in Prefixes \cup {GPGSV}}
    IN  clean
        \cup {Insert(s, k, c) : s \in clean, k \in 0..6,
                                c \in {" ", NonAscii, NonAsciiSpace, Ctrl}}
        \cup {Replace(s, k, c) : s \in clean, k \in 1..7,
                                 c \in {"g", "1", ",", "A", "$", " "}}
        \cup {<<>>, <<" ">>, <<"$">>, <<NonAscii>>}

\* lines for the validator and the parsers on their own: every sentence
\* start with one plain tail, and every tail behind the clean sentence starts
UnitLines ==
    {Line(t, "ok", "A", "1", <<"num", MaxCoord>>, <<"num", 0>>) : t \in NoisyTexts}
    \cup {Line(Sentence(t), d, st, q, la, lo) :
            t \in Prefixes \cup {GPGSV}, d \in {"ok", "cks", "err"},
            st \in {"A", "V", ""}, q \in {"0", "1"}, la \in Fields, lo \in Fields}

\* lines of the input file
FileLines ==
    LET hi == <<"num", MaxCoord>>
        lo == <<"num", 0>>
    IN  { Line(Sentence(GNGLL), "ok", "A", "1", lo, lo),
          Line(Sentence(GNGLL), "ok", "V", "1", hi, hi),
          Line(Sentence(GNGLL), "cks", "A", "1", hi, lo),
          Line(Sentence(GPGGA), "ok", "", "0", hi, lo),
          Line(Sentence(GPGGA), "cks", "", "1", hi, hi),
          Line(Sentence(GPRMC), "ok", "A", "1", lo, hi),
          Line(Sentence(GPRMC), "cks", "A", "1", lo, hi),
          Line(Sentence(GPRMC), "err", "A", "1", hi, hi),
          Line(Sentence(GNRMC), "ok", "A", "1", hi, hi),
          Line(Sentence(GNRMC), "cks", "A", "1", hi, hi),
          Line(Sentence(GNRMC), "ok", "A", "1", <<"bad">>, hi),
          Line(Sentence(GPGSV), "ok", "", "1", hi, hi),
          Line(Insert(Sentence(GPGGA), 0, " "), "ok", "", "1", hi, hi),
          Line(Insert(Sentence(GPGGA), 3, NonAscii), "ok", "", "1", hi, hi),
          Line(Insert(Sentence(GPGGA), 6, NonAscii), "ok", "", "1", hi, hi),
          Line(Insert(Sentence(GPGGA), 3, Ctrl), "ok", "", "1", hi, hi),
          Line(<<"g">>, "err", "", "1", <<"empty">>, <<"empty">>) }

\* command-line arguments
Paths == { <<"a", ".", "t">>,
           <<"d", ".", "x", "/", "a">>,
           <<"d", "/", "a", ".", "b", ".", "t">> }

RECURSIVE SeqsUpTo(_, _)
SeqsUpTo(S, n) == IF n = 0 THEN {<<>>}
                  ELSE LET shorter == SeqsUpTo(S, n - 1)
                       IN  shorter \cup {Append(q, x) : q \in shorter, x \in S}

\* ------------------------------------------------------------------ state
VARIABLES
    pc,          \* position of the program
    path,        \* args.file
    fileExists,  \* os.path.exists(file_path)
    file,        \* the lines read from the file so far
    valid,       \* <<is_valid_nmea(line)>> of the last line, <<>> before
    ret,         \* what the last parser call returned or raised, <<>> before
    dispatched,  \* the parser calls made: <<parser, line>>
    latitudes,
    longitudes,
    rms,         \* <<>> until calculate_rms has returned
    errors,
    percentiles, \* <<>> until calculate_percentiles has returned
    out,         \* standard output
    calls,       \* functions of the analysis and export stages called so far
    csv,         \* <<>> or <<name, rows>>: the file save_coordinates wrote
    hist,        \* <<>> or <<title, errors>>: the histogram shown
    raised       \* <<>> or <<e>>: the exception that ended the run

vars == <<pc, path, fileExists, file, valid, ret, dispatched, latitudes,
          longitudes, rms, errors, percentiles, out, calls, csv, hist, raised>>

Msg(tag) == [tag |-> tag, val |-> 0]

Blank == /\ valid = <<>>
         /\ ret = <<>>
         /\ dispatched = <<>>
         /\ rms = <<>>
         /\ errors = <<>>
         /\ percentiles = <<>>
         /\ out = <<>>
         /\ calls = {}
         /\ csv = <<>>
         /\ hist = <<>>
         /\ raised = <<>>

\* --------------------------------------------------------- the program run
Init == /\ pc = "load"
        /\ path \in Paths
        /\ fileExists \in BOOLEAN
        /\ latitudes = <<>>
        /\ longitudes = <<>>
        /\ file = <<>>
        /\ Blank

\* load_gps_data, lines 73-75: the file does not exist
LoadMissing ==
    /\ pc = "load"
    /\ ~fileExists
    /\ out' = Append(out, Msg("err_no_file"))
    /\ pc' = "loaded"
    /\ UNCHANGED <<path, fileExists, file, valid, ret, dispatched, latitudes,
                   longitudes, rms, errors, percentiles, calls, csv, hist, raised>>

\* load_gps_data, line 78: the file is opened
LoadOpen ==
    /\ pc = "load"
    /\ fileExists
    /\ pc' = "lines"
    /\ UNCHANGED <<path, fileExists, file, valid, ret, dispatched, latitudes,
                   longitudes, rms, errors, percentiles, out, calls, csv, hist,
                   raised>>

\* load_gps_data, lines 96-98: a fix is appended, (None, None) adds nothing;
\* k is 2 for the latitude and 3 for the longitude
MutAppendPlaceholder(series, r, k) == IF r[1] = "fix" THEN Append(series, r[k])
                                      ELSE Append(series, 0)
AppendFix(series, r, k) == IF r[1] = "fix" THEN Append(series, r[k]) ELSE series

\* load_gps_data, lines 79-98: one iteration of the loop, on the next line
\* of the file
LoadLine ==
    /\ pc = "lines"
    /\ Len(file) < MaxLines
    /\ \E line \in FileLines :
         LET v == is_valid_nmea(line)
             p == Dispatch(line)
             r == CallParser(p, line)
         IN  /\ file' = Append(file, line)
             /\ valid' = <<v>>
             /\ IF ~v \/ p = "skip"
                THEN UNCHANGED <<ret, dispatched, latitudes, longitudes, raised, pc>>
                ELSE /\ ret' = r
                     /\ dispatched' = Append(dispatched, <<p, line>>)
                     /\ IF r[1] = "raise"
                        THEN /\ raised' = <<r[2]>>
                             /\ pc' = "aborted"
                             /\ UNCHANGED <<latitudes, longitudes>>
                        ELSE /\ UNCHANGED <<raised, pc>>
                             /\ latitudes' = AppendFix(latitudes, r, 2)
                             /\ longitudes' = AppendFix(longitudes, r, 3)
    /\ UNCHANGED <<path, fileExists, rms, errors, percentiles, out, calls, csv, hist>>

\* load_gps_data, line 100: end of file
LoadReturn ==
    /\ pc = "lines"
    /\ pc' = "loaded"
    /\ UNCHANGED <<path, fileExists, file, valid, ret, dispatched, latitudes,
                   longitudes, rms, errors, percentiles, out, calls, csv, hist,
                   raised>>

\* main, lines 155-157
MutMainCheckNoReturn ==
    /\ pc = "loaded"
    /\ pc' = "rms"
    /\ UNCHANGED <<path, fileExists, file, valid, ret, dispatched, latitudes,
                   longitudes, rms, errors, percentiles, out, calls, csv, hist,
                   raised>>
MainCheck ==
    /\ pc = "loaded"
    /\ IF latitudes = <<>> \/ longitudes = <<>>
       THEN /\ out' = Append(out, Msg("err_no_valid_data"))
            /\ pc' = "done"
       ELSE /\ pc' = "rms"
            /\ UNCHANGED out
    /\ UNCHANGED <<path, fileExists, file, valid, ret, dispatched, latitudes,
                   longitudes, rms, errors, percentiles, calls, csv, hist, raised>>

\* main, lines 160-164
MainRms ==
    /\ pc = "rms"
    /\ LET r == calculate_rms(latitudes, longitudes)
       IN  /\ rms' = r.ret
           /\ out' = out \o r.printed \o ReportRms(r.ret)
    /\ calls' = calls \cup {"calculate_rms"}
    /\ pc' = "percentiles"
    /\ UNCHANGED <<path, fileExists, file, valid, ret, dispatched, latitudes,
                   longitudes, errors, percentiles, csv, hist, raised>>

\* main, lines 167-176
MainPercentiles ==
    /\ pc = "percentiles"
    /\ LET e == ErrorList(latitudes, longitudes)
           p == calculate_percentiles(e)
           rep == ReportPercentiles(p.ret)
       IN  /\ errors' = e
           /\ percentiles' = p.ret
           /\ out' = out \o p.printed \o rep.printed
           /\ raised' = rep.raised
           /\ pc' = IF rep.raised = <<>> THEN "save" ELSE "aborted"
    /\ calls' = calls \cup {"calculate_percentiles"}
    /\ UNCHANGED <<path, fileExists, file, valid, ret, dispatched, latitudes,
                   longitudes, rms, csv, hist>>

\* main, lines 179-183 and save_coordinates
MainSave ==
    /\ pc = "save"
    /\ csv' = <<output_filename(path), CsvRows(latitudes, longitudes)>>
    /\ calls' = calls \cup {"save_coordinates"}
    /\ pc' = "plot"
    /\ UNCHANGED <<path, fileExists, file, valid, ret, dispatched, latitudes,
                   longitudes, rms, errors, percentiles, out, hist, raised>>

\* main, line 186 and plot_errors
MainPlot ==
    /\ pc = "plot"
    /\ IF errors # <<>>
       THEN /\ hist' = <<splitext_root(basename(path)), errors>>
            /\ UNCHANGED out
       ELSE /\ out' = Append(out, Msg("err_no_plot_data"))
            /\ UNCHANGED hist
    /\ calls' = calls \cup {"plot_errors"}
    /\ pc' = "done"
    /\ UNCHANGED <<path, fileExists, file, valid, ret, dispatched, latitudes,
                   longitudes, rms, errors, percentiles, csv, raised>>

Next == \/ LoadMissing
        \/ LoadOpen
        \/ LoadLine
        \/ LoadReturn
        \/ MainCheck
        \/ MainRms
        \/ MainPercentiles
        \/ MainSave
        \/ MainPlot

Spec == Init /\ [][Next]_vars

\* ------------------------------------- the validator and parsers, called
\* on one line each
Parsers == {"parse_gngll", "parse_gpgga", "parse_gprmc", "parse_gnrmc"}

InitParse == /\ pc = "unit"
             /\ path = <<"a", ".", "t">>
             /\ fileExists = TRUE
             /\ latitudes = <<>>
             /\ longitudes = <<>>
             /\ Blank
             /\ \E line \in UnitLines : file = <<line>>

\* is_valid_nmea(line)
CallValidator ==
    /\ pc = "unit"
    /\ valid = <<>>
    /\ valid' = <<is_valid_nmea(file[1])>>
    /\ UNCHANGED <<pc, path, fileExists, file, ret, dispatched, latitudes,
                   longitudes, rms, errors, percentiles, out, calls, csv, hist,
                   raised>>

\* parse_gngll(line), parse_gpgga(line), parse_gprmc(line), parse_gnrmc(line)
CallOneParser ==
    /\ pc = "unit"
    /\ ret = <<>>
    /\ \E p \in Parsers :
         /\ ret' = CallParser(p, file[1])
         /\ dispatched' = <<<<p, file[1]>>>>
    /\ UNCHANGED <<pc, path, fileExists, file, valid, latitudes, longitudes,
                   rms, errors, percentiles, out, calls, csv, hist, raised>>

NextParse == CallValidator \/ CallOneParser

SpecParse == InitParse /\ [][NextParse]_vars

\* ------------------------------------- the statistics functions and the
\* report lines of main, called on one series each
Points == CoordVals \X CoordVals

InitStats == /\ pc = "stats"
             /\ path = <<"a", ".", "t">>
             /\ fileExists = TRUE
             /\ file = <<>>
             /\ Blank
             /\ \E series \in SeqsUpTo(Points, MaxN) :
                  /\ latitudes = [i \in 1..Len(series) |-> series[i][1]]
                  /\ longitudes = [i \in 1..Len(series) |-> series[i][2]]

\* rms = calculate_rms(latitudes, longitudes)
CallRms ==
    /\ pc = "stats"
    /\ rms = <<>>
    /\ LET r == calculate_rms(latitudes, longitudes)
       IN  /\ rms' = r.ret
           /\ out' = out \o r.printed
    /\ calls' = calls \cup {"calculate_rms"}
    /\ UNCHANGED <<pc, path, fileExists, file, valid, ret, dispatched, latitudes,
                   longitudes, errors, percentiles, csv, hist, raised>>

\* percentiles = calculate_percentiles(errors), errors as main computes them
CallPercentiles ==
    /\ pc = "stats"
    /\ percentiles = <<>>
    /\ LET e == ErrorList(latitudes, longitudes)
           p == calculate_percentiles(e)
       IN  /\ errors' = e
           /\ percentiles' = p.ret
           /\ out' = out \o p.printed
    /\ calls' = calls \cup {"calculate_percentiles"}
    /\ UNCHANGED <<pc, path, fileExists, file, valid, ret, dispatched, latitudes,
                   longitudes, rms, csv, hist, raised>>

\* main, lines 161-164 and 172-176: the report of both results
CallReport ==
    /\ pc = "stats"
    /\ rms # <<>>
    /\ percentiles # <<>>
    /\ LET rep == ReportPercentiles(percentiles)
       IN  /\ out' = out \o ReportRms(rms) \o rep.printed
           /\ raised' = rep.raised
           /\ pc' = IF rep.raised = <<>> THEN "reported" ELSE "aborted"
    /\ UNCHANGED <<path, fileExists, file, valid, ret, dispatched, latitudes,
                   longitudes, rms, errors, percentiles, calls, csv, hist>>

NextStats == CallRms \/ CallPercentiles \/ CallReport

SpecStats == InitStats /\ [][NextStats]_vars

\* ================================================================== claims
Last(s) == s[Len(s)]

\* the raw line begins with one of the four sentence identifiers
RawPrefixed(line) == /\ Len(line.text) >= 6
                     /\ <<line.text[1], line.text[2], line.text[3],
                          line.text[4], line.text[5], line.text[6]>> \in Prefixes

\* the raw line is a sentence identifier, a comma and a well-formed tail
WellFormed(line) == /\ RawPrefixed(line)
                    /\ Len(line.text) = 7
                    /\ line.text[7] = ","
                    /\ line.dec # "err"

\* the decoder finds nothing wrong with the line: grammar, checksum and the
\* coordinate fields (an empty coordinate field decodes as zero)
Decodes(line) == /\ WellFormed(line)
                 /\ line.dec = "ok"
                 /\ line.lat[1] # "bad"
                 /\ line.lon[1] # "bad"

HasPrefix(line, prefix) == RawPrefixed(line) /\ SubSeq(line.text, 1, 6) = prefix

IsGGA(line) == HasPrefix(line, GPGGA)

\* ---- C1
\* the decoder reports an error that is not a checksum mismatch: the sentence
\* is malformed, or a coordinate field that the parser reads is not a number
C1_DecodeErrorReported(line) ==
    \/ ~WellFormed(line)
    \/ /\ line.dec = "ok"
       /\ IsGGA(line) \/ line.status = "A"
       /\ line.lat[1] = "bad" \/ line.lon[1] = "bad"

\* C1: when the decoder reports a decode error other than a checksum
\* mismatch on a line handed to a parser (malformed sentence, coordinate
\* field that is not a number), the parser returns "no fix", nothing is
\* raised and the run is not aborted.
C1_DecodeErrorsAbsorbed ==
    (dispatched # <<>> /\ Last(dispatched)[2] = Last(file)
       /\ C1_DecodeErrorReported(Last(file)))
    => (ret = <<"none">> /\ raised = <<>> /\ pc # "aborted")

\* ---- C2
\* C2: a parser called on a line of its own sentence type returns a fix
\* exactly when the line decodes and the type is GPGGA or the status field is
\* 'A'; a decodable GNGLL/GPRMC/GNRMC line with another status gives (None,
\* None) whatever its coordinate fields hold, and a GPGGA line that decodes
\* gives a fix whatever its fix-quality field holds.
C2_FixIffDecodedAndGated ==
    (pc = "unit" /\ ret # <<>> /\ RawPrefixed(file[1])
       /\ dispatched[1][1] = Dispatch(file[1]))
    => LET l == file[1]
       IN  /\ (ret[1] = "fix") <=> (Decodes(l) /\ (IsGGA(l) \/ l.status = "A"))
           /\ (WellFormed(l) /\ l.dec = "ok" /\ ~IsGGA(l) /\ l.status # "A")
                => ret = <<"none">>
           /\ (IsGGA(l) /\ Decodes(l)) => ret[1] = "fix"
           /\ (ret[1] = "fix" /\ l.lat[1] = "num" /\ l.lon[1] = "num")
                => ret = <<"fix", l.lat[2], l.lon[2]>>

C2_Witness ==
    /\ pc = "unit"
    /\ dispatched # <<>>
    /\ dispatched[1][1] = "parse_gprmc"
    /\ HasPrefix(file[1], GPRMC)
    /\ file[1].dec = "ok"
    /\ file[1].status = "V"
    /\ file[1].lat[1] = "num"
    /\ file[1].lon[1] = "num"
    /\ ret = <<"none">>

\* ---- C3
\* C3: a line that fails checksum verification makes whichever parser it is
\* given to return (None, None) without raising; the loader appends nothing
\* for it and stays in its loop.
C3_ChecksumFailureSkipped ==
    [][ (pc = "lines" /\ Len(file') = Len(file) + 1 /\ WellFormed(Last(file'))
           /\ Last(file').dec = "cks")
        => /\ dispatched' = Append(dispatched, <<Dispatch(Last(file')), Last(file')>>)
           /\ ret' = <<"none">>
           /\ raised' = <<>>
           /\ latitudes' = latitudes
           /\ longitudes' = longitudes
           /\ pc' = "lines" ]_vars

C3_Witness ==
    /\ Len(file) = 2
    /\ file[1].dec = "cks"
    /\ Len(dispatched) = 2
    /\ dispatched[1][2] = file[1]
    /\ Len(latitudes) = 1
    /\ ret[1] = "fix"
    /\ pc = "lines"

\* ---- C4
\* leading and trailing whitespace removed
C4_Stripped(text) ==
    LET keep == {i \in 1..Len(text) : text[i] \notin {" ", NonAsciiSpace}}
    IN  IF keep = {} THEN <<>>
        ELSE SubSeq(text, CHOOSE i \in keep : \A j \in keep : i <= j,
                          CHOOSE i \in keep : \A j \in keep : j <= i)

C4_Pattern(s) == /\ Len(s) >= 7
                 /\ s[1] = "$"
                 /\ {s[2], s[3], s[4], s[5], s[6]} \subseteq UpperLetters
                 /\ s[7] = ","

C4_Printable(c) == c \notin {NonAscii, NonAsciiSpace, Ctrl}

C4_SevenBit(c) == c \notin {NonAscii, NonAsciiSpace}

\* C4 as stated: is_valid_nmea(line) is true exactly when the line, stripped
\* of surrounding whitespace and with every character outside printable
\* ASCII removed (control characters and non-ASCII characters alike), begins
\* with '$', five uppercase letters and a comma.
C4_ValidIffPrintablePattern ==
    (pc = "unit" /\ valid # <<>>)
    => (valid[1] <=> C4_Pattern(SelectSeq(C4_Stripped(file[1].text), C4_Printable)))

\* C4 (amended): is_valid_nmea(line) is true exactly when the line, stripped
\* of surrounding whitespace and with every non-ASCII character removed
\* (ASCII control characters stay where they are), begins with '$', five
\* uppercase letters and a comma.
C4_ValidIffAsciiPattern ==
    (pc = "unit" /\ valid # <<>>)
    => (valid[1] <=> C4_Pattern(SelectSeq(C4_Stripped(file[1].text), C4_SevenBit)))

C4_Witness ==
    /\ pc = "unit"
    /\ valid = <<TRUE>>
    /\ \E i \in 1..Len(file[1].text) : file[1].text[i] = NonAscii

\* ---- C5
\* what one line contributes to the series
C5_Fix(line) ==
    IF /\ C4_Pattern(SelectSeq(C4_Stripped(line.text), C4_SevenBit))
       /\ RawPrefixed(line)
       /\ Decodes(line)
       /\ (IsGGA(line) \/ line.status = "A")
    THEN <<<<Coordinate(line.lat)[2], Coordinate(line.lon)[2]>>>>
    ELSE <<>>

RECURSIVE C5_Series(_)
C5_Series(lines) == IF lines = <<>> THEN <<>>
                    ELSE C5_Fix(Head(lines)) \o C5_Series(Tail(lines))

\* C5: after every line read, the series is the file-ordered sequence of the
\* fixes of the lines that pass the validator, begin with one of the four
\* identifiers and get a fix from their parser: one (lat, lon) pair for each
\* such line, nothing for any other line, latitudes and longitudes of equal
\* length.
C5_SeriesIsFixesInFileOrder ==
    pc \in {"lines", "loaded", "aborted"}
    => /\ Len(latitudes) = Len(longitudes)
       /\ [i \in 1..Len(latitudes) |-> <<latitudes[i], longitudes[i]>>]
            = C5_Series(file)

C5_Witness ==
    /\ pc = "loaded"
    /\ Len(file) = 3
    /\ Len(latitudes) = 2
    /\ C5_Fix(file[2]) = <<>>
    /\ <<latitudes[1], longitudes[1]>> # <<latitudes[2], longitudes[2]>>

\* ---- C6
NumericTags == {"rms", "p68", "p95"}

\* C6: when the input file is missing or the load ends with no fix, the run
\* prints a diagnostic and ends: no statistics function is called, no number
\* is printed, no CSV is written and no histogram is shown.
C6_EmptyRunStopsEarly ==
    /\ (~fileExists /\ pc # "load")
         => (pc \in {"loaded", "done"} /\ out[1] = Msg("err_no_file"))
    /\ (pc \in {"loaded", "done"} /\ (~fileExists \/ latitudes = <<>>))
         => /\ calls = {}
            /\ rms = <<>>
            /\ percentiles = <<>>
            /\ csv = <<>>
            /\ hist = <<>>
            /\ \A i \in 1..Len(out) : out[i].tag \notin NumericTags
    /\ (pc \notin {"load", "lines", "loaded", "aborted"} /\ latitudes = <<>>)
         => (pc = "done" /\ Last(out) = Msg("err_no_valid_data"))

C6_Witness ==
    /\ pc = "done"
    /\ fileExists
    /\ Len(file) = MaxLines
    /\ latitudes = <<>>
    /\ dispatched # <<>>
    /\ out = <<Msg("err_no_valid_data")>>

\* ---- C7
\* C7: on an empty series calculate_rms and calculate_percentiles each
\* report the lack of data and return an explicit "undefined" that is neither
\* a number nor NaN, and the report then prints the failure message for the
\* RMS and for the percentiles without raising.
C7_EmptySeriesUndefined ==
    (pc \in {"stats", "reported", "aborted"} /\ latitudes = <<>>)
    => /\ rms # <<>> => (rms[1] \notin {"num", "nan"}
                          /\ \E i \in 1..Len(out) : out[i] = Msg("err_rms_no_data"))
       /\ percentiles # <<>> => (percentiles[1] # "ndarray"
                                  /\ \E i \in 1..Len(out) : out[i] = Msg("err_pct_no_data"))
       /\ raised = <<>>
       /\ pc # "aborted"
       /\ pc = "reported" => /\ \E i \in 1..Len(out) : out[i] = Msg("rms_failed")
                             /\ \E i \in 1..Len(out) : out[i] = Msg("pct_failed")
                             /\ \A i \in 1..Len(out) : out[i].tag \notin NumericTags

\* ---- C8
\* the file name of the path without its directories and last extension
C8_Stem(p) ==
    LET cuts == {c \in (1..Len(p)) \X (1..Len(p)) :
                   LET dir  == SubSeq(p, 1, c[1] - 1)
                       stem == SubSeq(p, c[1], c[2])
                       ext  == SubSeq(p, c[2] + 1, Len(p))
                   IN  /\ c[1] <= c[2]
                       /\ \A i \in 1..Len(stem) : stem[i] # "/"
                       /\ dir = <<>> \/ Last(dir) = "/"
                       /\ \A i \in 1..Len(ext) : ext[i] # "/" /\ (ext[i] = "." <=> i = 1)
                       /\ ext = <<>> => \A i \in 1..Len(stem) : stem[i] # "."}
        cut == CHOOSE c \in cuts : TRUE
    IN  SubSeq(p, cut[1], cut[2])

C9_Identical == /\ latitudes # <<>>
                /\ Len(latitudes) = Len(longitudes)
                /\ \A i \in 1..Len(latitudes) :
                     latitudes[i] = latitudes[1] /\ longitudes[i] = longitudes[1]

C10_DispatchOnRawPrefix ==
    /\ \A i \in 1..Len(dispatched) : RawPrefixed(dispatched[i][2])
    /\ pc \in {"lines", "loaded", "aborted"} =>
         /\ [i \in 1..Len(dispatched) |-> dispatched[i][2]]
              = SelectSeq(file, LAMBDA l : RawPrefixed(l)
                   /\ C4_Pattern(SelectSeq(C4_Stripped(l.text), C4_SevenBit)))
         /\ Len(latitudes) <= Len(SelectSeq(file, RawPrefixed))

C10_Witness ==
    /\ pc = "lines"
    /\ Len(file) = 2
    /\ valid = <<TRUE>>
    /\ file[1].text = Insert(Sentence(GPGGA), 0, " ")
    /\ file[2].text = Insert(Sentence(GPGGA), 3, NonAscii)
    /\ file[1].dec = "ok"
    /\ dispatched = <<>>
    /\ latitudes = <<>>
====
